---- MODULE Spec2Model ----
(***************************************************************************)
(* dataSourceToInitConfig (pkg/provider/kubeadm_init.go): derivation of a  *)
(* kubeadm InitConfiguration from a Terraform ResourceData and a token.    *)
(*                                                                         *)
(* Strings whose characters the code inspects (endpoints, DNS domains,     *)
(* port texts) are sequences of one-character strings; all other strings   *)
(* are TLA+ strings.  Go maps are reference values: KubeletExtraArgs       *)
(* either aliases the package-level map common.DefKubeletSettings          *)
(* (shared = TRUE) or holds a map of its own.                              *)
(***************************************************************************)
EXTENDS Integers, Sequences, FiniteSets, TLC

VARIABLES
    DefKubeletSettings, \* common.DefKubeletSettings, the package-level map
    pc,                 \* per invocation: the derivation step it is about to run
    d,                  \* per invocation: the *schema.ResourceData argument
    token,              \* per invocation: the token argument
    initConfig,         \* per invocation: the record under construction
    base,               \* per invocation: the record as constructed (lines 35-45)
    ran,                \* per invocation: the steps executed so far
    ret,                \* per invocation: the returned (initConfig, error) pair
    calls,              \* the calls of dataSourceToInitConfig made so far
    fatal               \* the Go runtime aborted: "concurrent map writes"

vars == <<DefKubeletSettings, pc, d, token, initConfig, base, ran, ret, calls, fatal>>

----------------------------------------------------------------------------
(* Bounds *)

\* longest DNS domain text enumerated character by character
MaxLen == 3

\* the invocation slots; the sequential specification uses slot 1 alone
Procs == {1, 2}

----------------------------------------------------------------------------
(* Optional values, Go maps *)

NoneV == <<>>
Some(x) == <<x>>
Val(o) == o[1]

EmptyMap == <<>>

\* m[k] = v on a Go map held as a function
MapSet(m, k, v) == [x \in (DOMAIN m) \cup {k} |-> IF x = k THEN v ELSE m[x]]

\* a nil map[string]string
NilMap == [nil |-> TRUE, m |-> EmptyMap]

\* a non-nil map[string]string with the entries of f
MkMap(f) == [nil |-> FALSE, m |-> f]

\* m[k] = v on a map field; the code always allocates a nil map first
MapFieldSet(fld, k, v) == MkMap(MapSet(fld.m, k, v))

----------------------------------------------------------------------------
(* Character strings *)

Digits == <<"0", "1", "2", "3", "4", "5", "6", "7", "8", "9">>

IsDigit(c) == \E n \in 1..10 : Digits[n] = c

DigitVal(c) == (CHOOSE n \in 1..10 : Digits[n] = c) - 1

\* bytealg.IndexByteString, 1-based, 0 when absent
IndexByte(s, c) ==
    IF \E i \in 1..Len(s) : s[i] = c
    THEN CHOOSE i \in 1..Len(s) : s[i] = c /\ \A j \in 1..(i - 1) : s[j] # c
    ELSE 0

\* the last index of c in s, 1-based, 0 when absent
LastIndexByte(s, c) ==
    IF \E i \in 1..Len(s) : s[i] = c
    THEN CHOOSE i \in 1..Len(s) : s[i] = c /\ \A j \in (i + 1)..Len(s) : s[j] # c
    ELSE 0

\* s[from:] with a 1-based first index
From(s, from) == SubSeq(s, from, Len(s))

\* the decimal digits of a natural number
RECURSIVE NatDigits(_)
NatDigits(n) == IF n < 10 THEN <<Digits[n + 1]>> ELSE NatDigits(n \div 10) \o <<Digits[(n % 10) + 1]>>

\* strconv.Itoa on an int32 value
Itoa(n) ==
    IF n >= 0 THEN NatDigits(n)
    ELSE IF n = (-2147483647) - 1 THEN <<"-", "2", "1", "4", "7", "4", "8", "3", "6", "4", "8">>
    ELSE <<"-">> \o NatDigits(-n)

\* digits with the leading zeros removed ("0" for zero)
RECURSIVE StripZeros(_)
StripZeros(ds) == IF Len(ds) > 1 /\ ds[1] = "0" THEN StripZeros(Tail(ds)) ELSE ds

\* ds <= bound as decimal numbers, both without leading zeros
RECURSIVE LexLeq(_, _)
LexLeq(ds, bound) ==
    IF ds = <<>> THEN TRUE
    ELSE IF DigitVal(ds[1]) < DigitVal(bound[1]) THEN TRUE
    ELSE IF DigitVal(ds[1]) > DigitVal(bound[1]) THEN FALSE
    ELSE LexLeq(Tail(ds), Tail(bound))

DecLeq(ds, bound) == Len(ds) < Len(bound) \/ (Len(ds) = Len(bound) /\ LexLeq(ds, bound))

MaxInt64Digits == <<"9","2","2","3","3","7","2","0","3","6","8","5","4","7","7","5","8","0","7">>
MinInt64Digits == <<"9","2","2","3","3","7","2","0","3","6","8","5","4","7","7","5","8","0","8">>

----------------------------------------------------------------------------
(* strconv.Atoi and the int32 conversion (64-bit int) *)

\* the sign and the digit text of s, when s is [+-]?[0-9]+
HasSign(s) == Len(s) > 0 /\ s[1] \in {"+", "-"}
Unsigned(s) == IF HasSign(s) THEN Tail(s) ELSE s
IsDecimal(s) == Len(Unsigned(s)) > 0 /\ \A i \in 1..Len(Unsigned(s)) : IsDigit(Unsigned(s)[i])

\* strconv.Atoi: a syntax error, a range error, or the integer, held as its
\* sign and magnitude digits (an int has 64 bits)
Atoi(s) ==
    IF ~IsDecimal(s) THEN [err |-> Some("invalid syntax"), neg |-> FALSE, mag |-> <<>>]
    ELSE LET neg == s[1] = "-"
             mag == StripZeros(Unsigned(s))
         IN  IF DecLeq(mag, IF neg THEN MinInt64Digits ELSE MaxInt64Digits)
             THEN [err |-> NoneV, neg |-> neg /\ mag # <<"0">>, mag |-> mag]
             ELSE [err |-> Some("value out of range"), neg |-> FALSE, mag |-> <<>>]

\* the low 32 bits of a magnitude, as two 16-bit words <<hi, lo>>
RECURSIVE LowWords(_, _, _, _)
LowWords(ds, k, hi, lo) ==
    IF k > Len(ds) THEN <<hi, lo>>
    ELSE LET l == lo * 10 + DigitVal(ds[k])
         IN  LowWords(ds, k + 1, (hi * 10 + (l \div 65536)) % 65536, l % 65536)

\* int32(i) for the integer i Atoi returned: two's complement truncation
Int32(i) ==
    LET w == LowWords(i.mag, 1, 0, 0)
        lo == IF i.neg THEN (65536 - w[2]) % 65536 ELSE w[2]
        hi == IF i.neg THEN (IF w[2] = 0 THEN 65536 - w[1] ELSE 65535 - w[1]) % 65536 ELSE w[1]
    IN  IF hi >= 32768 THEN (hi - 65536) * 65536 + lo ELSE hi * 65536 + lo

----------------------------------------------------------------------------
(* net.SplitHostPort *)

AddrError(why) == [host |-> <<>>, port |-> <<>>, err |-> Some(why)]

SplitHostPort(hostport) ==
    LET n == Len(hostport)
        i == LastIndexByte(hostport, ":")
        end == IndexByte(hostport, "]")
        port == From(hostport, i + 1)
        checked(host, j, k) ==
            IF IndexByte(From(hostport, j), "[") > 0 THEN AddrError("unexpected '[' in address")
            ELSE IF IndexByte(From(hostport, k), "]") > 0 THEN AddrError("unexpected ']' in address")
            ELSE [host |-> host, port |-> port, err |-> NoneV]
    IN  IF i = 0 THEN AddrError("missing port in address")
        ELSE IF hostport[1] = "["
        THEN IF end = 0 THEN AddrError("missing ']' in address")
             ELSE IF end = n THEN AddrError("missing port in address")
             ELSE IF end + 1 = i THEN checked(SubSeq(hostport, 2, end - 1), 2, end + 1)
             ELSE IF hostport[end + 1] = ":" THEN AddrError("too many colons in address")
             ELSE AddrError("missing port in address")
        ELSE IF IndexByte(SubSeq(hostport, 1, i - 1), ":") > 0
             THEN AddrError("too many colons in address")
             ELSE checked(SubSeq(hostport, 1, i - 1), 1, 1)

----------------------------------------------------------------------------
(* The DNS domain check of line 89-90 *)

\* [a-z0-9]
IsLowerAlnum(c) ==
    \/ c \in {"a", "b", "c", "d", "e", "f", "g", "h", "i", "j", "k", "l", "m",
              "n", "o", "p", "q", "r", "s", "t", "u", "v", "w", "x", "y", "z"}
    \/ IsDigit(c)

\* [a-z0-9]([-a-z0-9]*[a-z0-9])?
IsLabel(s) ==
    /\ Len(s) > 0
    /\ IsLowerAlnum(s[1])
    /\ IsLowerAlnum(s[Len(s)])
    /\ \A i \in 1..Len(s) : IsLowerAlnum(s[i]) \/ s[i] = "-"

\* the whole of s is label(\.label)*
FullMatch(s) ==
    LET cuts == {0, Len(s) + 1} \cup {i \in 1..Len(s) : s[i] = "."}
    IN  \A a, b \in cuts :
            (a < b /\ ~\E c \in cuts : a < c /\ c < b) => IsLabel(SubSeq(s, a + 1, b - 1))

\* regexp.MatchString with the pattern of line 89: the pattern has no ^ or $,
\* so it matches when any substring of s does
MatchString(s) == \E i, j \in 1..Len(s) : i <= j /\ FullMatch(SubSeq(s, i, j))

----------------------------------------------------------------------------
(* Package common: tables and helpers the derivation reads *)

\* common.DefKubeletSettings as initialised at program start
DefKubeletSettingsInit == [k \in {"network-plugin"} |-> "cni"]

\* common.DefCriSocket: engine name -> CRI socket
DefCriSocket ==
    ("docker" :> "/var/run/dockershim.sock") @@ ("containerd" :> "/var/run/containerd/containerd.sock")

\* common.DefResolvUpstreamConf
DefResolvUpstreamConf == "/var/run/systemd/resolve/resolv.conf"

\* common.DefAPIServerPort
DefAPIServerPort == 6443

\* common.AddressWithPort: name, with ":port" added when name has no port
AddressWithPort(name, port) ==
    IF IndexByte(name, ":") = 0 THEN name \o <<":">> \o Itoa(port) ELSE name

\* the tokens common.NewBootstrapToken accepts, of those the model draws
AcceptedTokens == {"abcdef.0123456789abcdef"}

\* common.NewBootstrapToken: the outcomes of constructing a credential; the
\* expiry the routine sets is its own choice
NewBootstrapToken(tok) ==
    IF tok \in AcceptedTokens
    THEN {[t |-> [Token |-> tok, Expires |-> e], err |-> NoneV] : e \in {NoneV, Some("24h")}}
    ELSE {[t |-> [Token |-> "", Expires |-> NoneV], err |-> Some([kind |-> "token", value |-> tok])]}

----------------------------------------------------------------------------
(* schema.ResourceData: the source tree.  A block (api.0, network.0, ...)  *)
(* is NoneV or Some(record); a leaf holds its value, the zero value when   *)
(* the configuration does not set it.                                      *)

\* d.GetOk on a string leaf: set and not the zero value
GetOkStr(v) == v # ""

\* d.GetOk on a character string, list or map leaf
GetOkSeq(v) == v # <<>>

\* d.GetOk on a block
GetOkBlock(b) == b # NoneV

ApiBlock(external, internal, altNames) ==
    Some([external |-> external, internal |-> internal, alt_names |-> altNames])

DnsBlock(domain, upstream) == Some([domain |-> domain, upstream |-> upstream])

NetworkBlock(pods, services, dns) == Some([pods |-> pods, services |-> services, dns |-> dns])

ImagesBlock(kubeRepo, etcdRepo, etcdVersion) ==
    Some([kube_repo |-> kubeRepo, etcd_repo |-> etcdRepo, etcd_version |-> etcdVersion])

ExtraArgsBlock(apiServer, controllerManager, scheduler, kubelet) ==
    Some([api_server |-> apiServer, controller_manager |-> controllerManager,
          scheduler |-> scheduler, kubelet |-> kubelet])

RuntimeBlock(engine, extraArgs) == Some([engine |-> engine, extra_args |-> extraArgs])

CloudBlock(provider) == Some([provider |-> provider])

CniBlock(binDir, confDir) == Some([bin_dir |-> binDir, conf_dir |-> confDir])

EtcdBlock(endpoints) == Some([endpoints |-> endpoints])

\* a ResourceData with no block and no version
EmptyTree ==
    [api |-> NoneV, network |-> NoneV, images |-> NoneV, runtime |-> NoneV,
     cloud |-> NoneV, cni |-> NoneV, version |-> "", etcd |-> NoneV]

----------------------------------------------------------------------------
(* kubeadmapi.InitConfiguration *)

\* KubeletExtraArgs aliasing common.DefKubeletSettings
SharedMap == [shared |-> TRUE, nil |-> FALSE, m |-> EmptyMap]

\* KubeletExtraArgs holding the map f of its own
OwnMap(f) == [shared |-> FALSE, nil |-> FALSE, m |-> f]

\* the literal of lines 35-45
NewInitConfig ==
    [ControlPlaneEndpoint |-> <<>>,
     AdvertiseAddress |-> <<>>,
     BindPort |-> 0,
     CertSANs |-> <<>>,
     PodSubnet |-> "",
     ServiceSubnet |-> "",
     DNSDomain |-> <<>>,
     ImageRepository |-> "",
     Etcd |-> [Local |-> NoneV, External |-> NoneV],
     CRISocket |-> "",
     KubeletExtraArgs |-> SharedMap,
     APIServerExtraArgs |-> NilMap,
     ControllerManagerExtraArgs |-> NilMap,
     SchedulerExtraArgs |-> NilMap,
     KubernetesVersion |-> "",
     BootstrapTokens |-> <<>>]

\* the entries of cfg.NodeRegistration.KubeletExtraArgs, g being the
\* package-level map
KubeletArgs(cfg, g) == IF cfg.KubeletExtraArgs.shared THEN g ELSE cfg.KubeletExtraArgs.m

\* cfg as a reader sees it: the kubelet map dereferenced
Observed(cfg, g) == [cfg EXCEPT !.KubeletExtraArgs = KubeletArgs(cfg, g)]

\* what a derivation step hands on
Ok(cfg, g) == [cfg |-> cfg, g |-> g, err |-> NoneV]
Fail(cfg, g, kind, value) == [cfg |-> cfg, g |-> g, err |-> Some([kind |-> kind, value |-> value])]

\* initConfig.NodeRegistration.KubeletExtraArgs[k] = v
KubeletSet(r, k, v) ==
    IF r.cfg.KubeletExtraArgs.shared
    THEN [r EXCEPT !.g = MapSet(r.g, k, v)]
    ELSE [r EXCEPT !.cfg.KubeletExtraArgs.m = MapSet(r.cfg.KubeletExtraArgs.m, k, v)]

----------------------------------------------------------------------------
(* The derivation steps of dataSourceToInitConfig, in source order.  Each  *)
(* takes the record so far, the source tree and the package-level map, and *)
(* hands on the three, or an error.                                        *)

\* lines 47-73: api.0
EndpointStep(cfg, dd, g) ==
    IF ~GetOkBlock(dd.api) THEN Ok(cfg, g)
    ELSE LET api == Val(dd.api)
             c1 == IF GetOkSeq(api.external)
                   THEN [cfg EXCEPT !.ControlPlaneEndpoint = AddressWithPort(api.external, DefAPIServerPort)]
                   ELSE cfg
             hp == SplitHostPort(api.internal)
             i == Atoi(hp.port)
             c2 == [c1 EXCEPT !.AdvertiseAddress = hp.host,
                              !.BindPort = IF hp.port # <<>> THEN Int32(i) ELSE @,
                              !.CertSANs = Append(@, hp.host)]
             withAltNames(c) ==
                 IF GetOkSeq(api.alt_names) THEN [c EXCEPT !.CertSANs = @ \o api.alt_names] ELSE c
         IN  IF ~GetOkSeq(api.internal) THEN Ok(withAltNames(c1), g)
             ELSE IF hp.err # NoneV THEN Fail(c1, g, "endpoint", api.internal)
             ELSE IF hp.port # <<>> /\ i.err # NoneV THEN Fail(c1, g, "endpoint", hp.port)
             ELSE Ok(withAltNames(c2), g)

\* lines 75-104: network.0
NetworkStep(cfg, dd, g) ==
    IF ~GetOkBlock(dd.network) THEN Ok(cfg, g)
    ELSE LET net == Val(dd.network)
             c1 == IF GetOkStr(net.pods) THEN [cfg EXCEPT !.PodSubnet = net.pods] ELSE cfg
             c2 == IF GetOkStr(net.services) THEN [c1 EXCEPT !.ServiceSubnet = net.services] ELSE c1
             dns == Val(net.dns)
             c3 == IF GetOkSeq(dns.domain) THEN [c2 EXCEPT !.DNSDomain = dns.domain] ELSE c2
         IN  IF ~GetOkBlock(net.dns) THEN Ok(c2, g)
             ELSE IF GetOkSeq(dns.domain) /\ ~MatchString(dns.domain)
             THEN Fail(c2, g, "dns", dns.domain)
             ELSE IF GetOkSeq(dns.upstream) /\ Len(dns.upstream) > 0
             THEN KubeletSet(Ok(c3, g), "resolv-conf", DefResolvUpstreamConf)
             ELSE Ok(c3, g)

\* lines 106-122: images.0
ImagesStep(cfg, dd, g) ==
    IF ~GetOkBlock(dd.images) THEN Ok(cfg, g)
    ELSE LET img == Val(dd.images)
             c1 == [cfg EXCEPT !.ImageRepository = img.kube_repo]
         IN  IF img.etcd_version # "" \/ img.etcd_repo # ""
             THEN Ok([c1 EXCEPT !.Etcd =
                        [Local |-> Some([ImageRepository |-> img.etcd_repo, ImageTag |-> img.etcd_version]),
                         External |-> NoneV]], g)
             ELSE Ok(c1, g)

\* lines 135-148: runtime.0.extra_args.0
ExtraArgsCopy(cfg, rt) ==
    IF ~GetOkBlock(rt.extra_args) THEN cfg
    ELSE LET args == Val(rt.extra_args)
             c1 == IF GetOkSeq(args.api_server)
                   THEN [cfg EXCEPT !.APIServerExtraArgs = MkMap(args.api_server)] ELSE cfg
             c2 == IF GetOkSeq(args.controller_manager)
                   THEN [c1 EXCEPT !.ControllerManagerExtraArgs = MkMap(args.controller_manager)] ELSE c1
             c3 == IF GetOkSeq(args.scheduler)
                   THEN [c2 EXCEPT !.SchedulerExtraArgs = MkMap(args.scheduler)] ELSE c2
         IN  IF GetOkSeq(args.kubelet)
             THEN [c3 EXCEPT !.KubeletExtraArgs = OwnMap(args.kubelet)] ELSE c3

\* RuntimeStep with an unknown engine skipped instead of refused
RuntimeStepSkipsUnknown(cfg, dd, g) ==
    IF ~GetOkBlock(dd.runtime) THEN Ok(cfg, g)
    ELSE LET rt == Val(dd.runtime)
             socket == DefCriSocket[rt.engine]
             r1 == KubeletSet(Ok(cfg, g), "container-runtime-endpoint", "unix://" \o socket)
             r2 == [r1 EXCEPT !.cfg.CRISocket = socket]
         IN  IF ~GetOkStr(rt.engine) \/ rt.engine \notin DOMAIN DefCriSocket
             THEN Ok(ExtraArgsCopy(cfg, rt), g)
             ELSE [r2 EXCEPT !.cfg = ExtraArgsCopy(r2.cfg, rt)]

\* lines 124-149: runtime.0
RuntimeStep(cfg, dd, g) ==
    IF ~GetOkBlock(dd.runtime) THEN Ok(cfg, g)
    ELSE LET rt == Val(dd.runtime)
             socket == DefCriSocket[rt.engine]
             r1 == KubeletSet(Ok(cfg, g), "container-runtime-endpoint", "unix://" \o socket)
             r2 == [r1 EXCEPT !.cfg.CRISocket = socket]
         IN  IF ~GetOkStr(rt.engine) THEN Ok(ExtraArgsCopy(cfg, rt), g)
             ELSE IF rt.engine \notin DOMAIN DefCriSocket THEN Fail(cfg, g, "runtime", rt.engine)
             ELSE [r2 EXCEPT !.cfg = ExtraArgsCopy(r2.cfg, rt)]

\* CloudStep with the API-server and controller-manager maps assigned anew
\* instead of stored into
CloudStepReplacesMaps(cfg, dd, g) ==
    IF ~(GetOkBlock(dd.cloud) /\ GetOkStr(Val(dd.cloud).provider) /\ Len(Val(dd.cloud).provider) > 0)
    THEN Ok(cfg, g)
    ELSE LET r1 == KubeletSet(Ok(cfg, g), "cloud-provider", "external")
         IN  [r1 EXCEPT !.cfg.APIServerExtraArgs = MkMap(("cloud-provider" :> "external")),
                        !.cfg.ControllerManagerExtraArgs = MkMap(("cloud-provider" :> "external"))]

\* lines 151-169: cloud.0.provider
CloudStep(cfg, dd, g) ==
    IF ~(GetOkBlock(dd.cloud) /\ GetOkStr(Val(dd.cloud).provider) /\ Len(Val(dd.cloud).provider) > 0)
    THEN Ok(cfg, g)
    ELSE LET c0 == IF cfg.KubeletExtraArgs.nil
                   THEN [cfg EXCEPT !.KubeletExtraArgs = OwnMap(EmptyMap)] ELSE cfg
             r1 == KubeletSet(Ok(c0, g), "cloud-provider", "external")
         IN  [r1 EXCEPT !.cfg.APIServerExtraArgs = MapFieldSet(@, "cloud-provider", "external"),
                        !.cfg.ControllerManagerExtraArgs = MapFieldSet(@, "cloud-provider", "external")]

\* lines 171-178: cni.0
CniStep(cfg, dd, g) ==
    IF ~GetOkBlock(dd.cni) THEN Ok(cfg, g)
    ELSE LET cni == Val(dd.cni)
             r1 == IF GetOkStr(cni.bin_dir) THEN KubeletSet(Ok(cfg, g), "cni-bin-dir", cni.bin_dir) ELSE Ok(cfg, g)
         IN  IF GetOkStr(cni.conf_dir) THEN KubeletSet(r1, "cni-conf-dir", cni.conf_dir) ELSE r1

\* lines 180-182: version
VersionStep(cfg, dd, g) ==
    IF GetOkStr(dd.version) /\ Len(dd.version) > 0
    THEN Ok([cfg EXCEPT !.KubernetesVersion = dd.version], g)
    ELSE Ok(cfg, g)

\* lines 184-191: etcd.0
EtcdStep(cfg, dd, g) ==
    IF GetOkBlock(dd.etcd) /\ GetOkSeq(Val(dd.etcd).endpoints)
    THEN Ok([cfg EXCEPT !.Etcd.External = Some([Endpoints |-> Val(dd.etcd).endpoints])], g)
    ELSE Ok(cfg, g)

\* CredentialStep without line 198, t.Expires = nil
CredentialStepKeepsExpiry(cfg, tok, made, g) ==
    IF ~(Len(tok) > 0) THEN Ok(cfg, g)
    ELSE IF made.err # NoneV THEN [cfg |-> cfg, g |-> g, err |-> made.err]
    ELSE Ok([cfg EXCEPT !.BootstrapTokens = <<made.t>>], g)

\* lines 193-200: the token; made is the outcome of common.NewBootstrapToken
CredentialStep(cfg, tok, made, g) ==
    IF ~(Len(tok) > 0) THEN Ok(cfg, g)
    ELSE IF made.err # NoneV THEN [cfg |-> cfg, g |-> g, err |-> made.err]
    ELSE Ok([cfg EXCEPT !.BootstrapTokens = <<[made.t EXCEPT !.Expires = NoneV]>>], g)

----------------------------------------------------------------------------
(* The inputs the model draws *)

\* the most calls of dataSourceToInitConfig in one run
MaxCalls == 2

Chars(n) == [1..n -> {"a", "A", "-", "."}]

\* cluster.local, my-cluster, My_Cluster, -bad-, _
NamedDomains ==
    {<<"c", "l", "u", "s", "t", "e", "r", ".", "l", "o", "c", "a", "l">>,
     <<"m", "y", "-", "c", "l", "u", "s", "t", "e", "r">>,
     <<"M", "y", "_", "C", "l", "u", "s", "t", "e", "r">>,
     <<"-", "b", "a", "d", "-">>,
     <<"_">>}

\* every DNS domain text of at most MaxLen characters over a, A, -, .
\* and the named ones
Domains == UNION {Chars(n) : n \in 0..MaxLen} \cup NamedDomains

Host == <<"h">>

\* api.0.internal texts: port 6443, no port, empty port, port x, -1, +80, 0,
\* 2^31, 2^32 + 6443, 10^20 - 1, a bracketed IPv6 host, two colons
Internals ==
    {<<>>,
     Host \o <<":", "6", "4", "4", "3">>,
     Host,
     Host \o <<":">>,
     Host \o <<":", "x">>,
     Host \o <<":", "-", "1">>,
     Host \o <<":", "+", "8", "0">>,
     Host \o <<":", "0">>,
     Host \o <<":", "2", "1", "4", "7", "4", "8", "3", "6", "4", "8">>,
     Host \o <<":", "4", "2", "9", "4", "9", "7", "3", "7", "3", "9">>,
     Host \o <<":", "9", "9", "9", "9", "9", "9", "9", "9", "9", "9", "9", "9", "9", "9", "9", "9", "9", "9", "9", "9">>,
     <<"[", ":", ":", "1", "]", ":", "8">>,
     <<"a", ":", "b", ":", "8">>}

AltNameLists == {<<>>, << <<"a">> >>, <<Host, <<"a">>, <<"a">> >>}

Externals == {<<>>, <<"e">>, <<"e", ":", "1">>}

ApiServerArgs == {EmptyMap, ("v" :> "2"), ("cloud-provider" :> "aws") @@ ("v" :> "2")}
ControllerManagerArgs == {EmptyMap, ("leader-elect" :> "true")}
SchedulerArgs == {EmptyMap, ("v" :> "1")}
KubeletArgMaps == {EmptyMap, ("max-pods" :> "10")}

ExtraArgsBlocks ==
    {NoneV} \cup {ExtraArgsBlock(a, c, s, k) :
                    a \in ApiServerArgs, c \in ControllerManagerArgs,
                    s \in SchedulerArgs, k \in KubeletArgMaps}

Engines == {"", "docker", "containerd", "podman-typo"}

Tokens == {"", "abcdef.0123456789abcdef", "not-a-token"}

TreesDns ==
    {[EmptyTree EXCEPT !.network = NetworkBlock("", "", DnsBlock(dom, <<>>))] : dom \in Domains}

TreesApi ==
    {[EmptyTree EXCEPT !.api = ApiBlock(e, i, a)] : e \in Externals, i \in Internals, a \in AltNameLists}

TreesRuntime ==
    {[EmptyTree EXCEPT !.runtime = RuntimeBlock(e, x), !.cloud = c] :
        e \in Engines,
        x \in {NoneV} \cup {ExtraArgsBlock(EmptyMap, EmptyMap, EmptyMap, k) : k \in KubeletArgMaps},
        c \in {NoneV, CloudBlock("aws")}}
    \cup {[EmptyTree EXCEPT !.runtime = RuntimeBlock("", x), !.cloud = c] :
            x \in ExtraArgsBlocks, c \in {NoneV, CloudBlock("aws")}}

TreesImages ==
    {[EmptyTree EXCEPT !.images = i, !.etcd = e] :
        i \in {NoneV} \cup {ImagesBlock(k, r, v) : k \in {"", "k8s.gcr.io"}, r \in {"", "quay.io"}, v \in {"", "3.3.10"}},
        e \in {NoneV, EtcdBlock(<<>>), EtcdBlock(<<"https://e1:2379">>)}}

TreesKubelet ==
    {[EmptyTree EXCEPT !.network = NetworkBlock("", "", DnsBlock(<<>>, u)), !.cni = c, !.cloud = p] :
        u \in {<<>>, <<"8.8.8.8">>},
        c \in {NoneV, CniBlock("", ""), CniBlock("/opt/cni/bin", ""), CniBlock("", "/etc/cni/net.d")},
        p \in {NoneV, CloudBlock(""), CloudBlock("aws")}}

TreesPlain ==
    {[EmptyTree EXCEPT !.network = n, !.version = v] :
        n \in {NoneV, NetworkBlock("", "", NoneV), NetworkBlock("10.244.0.0/16", "", NoneV),
               NetworkBlock("", "10.96.0.0/12", NoneV)},
        v \in {"", "v1.14.1"}}

\* trees on which several steps may fail, to tell which failure is returned
TreesFail ==
    {[EmptyTree EXCEPT !.api = ApiBlock(<<>>, i, <<>>),
                       !.network = NetworkBlock("", "", DnsBlock(dom, <<"8.8.8.8">>)),
                       !.runtime = RuntimeBlock(e, NoneV)] :
        i \in {Host \o <<":", "8">>, Host}, dom \in {<<"a">>, <<"_">>}, e \in {"docker", "podman-typo"}}

\* the (source tree, token) pairs of the sequential specification
Inputs ==
    {[d |-> t, token |-> ""] :
        t \in TreesDns \cup TreesApi \cup TreesRuntime \cup TreesImages \cup TreesKubelet \cup TreesPlain}
    \cup {[d |-> t, token |-> k] : t \in TreesFail \cup {EmptyTree}, k \in Tokens}

\* the (source tree, token) pairs of the concurrent specification
InputsConc ==
    {[d |-> t, token |-> ""] : t \in
        {EmptyTree,
         [EmptyTree EXCEPT !.network = NetworkBlock("", "", DnsBlock(<<>>, <<"8.8.8.8">>))],
         [EmptyTree EXCEPT !.runtime = RuntimeBlock("docker", NoneV)],
         [EmptyTree EXCEPT !.runtime = RuntimeBlock("containerd", NoneV)],
         [EmptyTree EXCEPT !.cloud = CloudBlock("aws")],
         [EmptyTree EXCEPT !.cni = CniBlock("/opt/cni/bin", "")],
         [EmptyTree EXCEPT !.runtime =
             RuntimeBlock("", ExtraArgsBlock(("v" :> "2"), EmptyMap, EmptyMap, ("max-pods" :> "10"))),
                           !.cloud = CloudBlock("aws")],
         [EmptyTree EXCEPT !.runtime =
             RuntimeBlock("", ExtraArgsBlock(("cloud-provider" :> "aws") @@ ("v" :> "2"),
                                             ("leader-elect" :> "true"), ("v" :> "1"), EmptyMap)),
                           !.cloud = CloudBlock("aws")],
         [EmptyTree EXCEPT !.network = NetworkBlock("", "", DnsBlock(<<>>, <<"8.8.8.8">>)),
                           !.runtime = RuntimeBlock("podman-typo", NoneV)]}}

----------------------------------------------------------------------------
(* The state machine: each invocation slot runs dataSourceToInitConfig     *)
(* step by step                                                            *)

\* nothing returned yet; seen is the returned record as read at the return
NoReturn == [initConfig |-> NoneV, err |-> NoneV, seen |-> NoneV]

Init ==
    /\ DefKubeletSettings = DefKubeletSettingsInit
    /\ pc = [p \in Procs |-> "idle"]
    /\ d = [p \in Procs |-> EmptyTree]
    /\ token = [p \in Procs |-> ""]
    /\ initConfig = [p \in Procs |-> NewInitConfig]
    /\ base = [p \in Procs |-> Observed(NewInitConfig, DefKubeletSettingsInit)]
    /\ ran = [p \in Procs |-> <<>>]
    /\ ret = [p \in Procs |-> NoReturn]
    /\ calls = 0
    /\ fatal = FALSE


\* the call: lines 32-45, the arguments bound and the record constructed
Call(p, in) ==
    /\ ~fatal
    /\ pc[p] \in {"idle", "done"}
    /\ calls < MaxCalls
    /\ calls' = calls + 1
    /\ pc' = [pc EXCEPT ![p] = "api"]
    /\ d' = [d EXCEPT ![p] = in.d]
    /\ token' = [token EXCEPT ![p] = in.token]
    /\ initConfig' = [initConfig EXCEPT ![p] = NewInitConfig]
    /\ base' = [base EXCEPT ![p] = Observed(NewInitConfig, DefKubeletSettings)]
    /\ ran' = [ran EXCEPT ![p] = <<>>]
    /\ ret' = [ret EXCEPT ![p] = NoReturn]
    /\ UNCHANGED <<DefKubeletSettings, fatal>>

\* step has run with outcome r: on an error return (nil, err), else go on
\* to next; after the last step return (initConfig, nil), line 202
Advance(p, step, r, next) ==
    /\ ~fatal
    /\ ran' = [ran EXCEPT ![p] = Append(@, step)]
    /\ DefKubeletSettings' = r.g
    /\ initConfig' = [initConfig EXCEPT ![p] = r.cfg]
    /\ pc' = [pc EXCEPT ![p] = IF r.err # NoneV THEN "done" ELSE next]
    /\ ret' = [ret EXCEPT ![p] =
                IF r.err # NoneV THEN [initConfig |-> NoneV, err |-> r.err, seen |-> NoneV]
                ELSE IF next = "done"
                THEN [initConfig |-> Some(r.cfg), err |-> NoneV, seen |-> Some(Observed(r.cfg, r.g))]
                ELSE @]
    /\ UNCHANGED <<d, token, base, calls, fatal>>

Endpoint(p) ==
    /\ pc[p] = "api"
    /\ Advance(p, "api", EndpointStep(initConfig[p], d[p], DefKubeletSettings), "network")

Network(p) ==
    /\ pc[p] = "network"
    /\ Advance(p, "network", NetworkStep(initConfig[p], d[p], DefKubeletSettings), "images")

Images(p) ==
    /\ pc[p] = "images"
    /\ Advance(p, "images", ImagesStep(initConfig[p], d[p], DefKubeletSettings), "runtime")

Runtime(p) ==
    /\ pc[p] = "runtime"
    /\ Advance(p, "runtime", RuntimeStep(initConfig[p], d[p], DefKubeletSettings), "cloud")

Cloud(p) ==
    /\ pc[p] = "cloud"
    /\ Advance(p, "cloud", CloudStep(initConfig[p], d[p], DefKubeletSettings), "cni")

Cni(p) ==
    /\ pc[p] = "cni"
    /\ Advance(p, "cni", CniStep(initConfig[p], d[p], DefKubeletSettings), "version")

Version(p) ==
    /\ pc[p] = "version"
    /\ Advance(p, "version", VersionStep(initConfig[p], d[p], DefKubeletSettings), "etcd")

Etcd(p) ==
    /\ pc[p] = "etcd"
    /\ Advance(p, "etcd", EtcdStep(initConfig[p], d[p], DefKubeletSettings), "token")

Credential(p) ==
    /\ pc[p] = "token"
    /\ \E made \in NewBootstrapToken(token[p]) :
           Advance(p, "token", CredentialStep(initConfig[p], token[p], made, DefKubeletSettings), "done")

\* the step invocation p is about to run stores into the package-level map
\* (run against an empty map, it leaves an entry)
WritesShared(p) ==
    /\ initConfig[p].KubeletExtraArgs.shared
    /\ \/ pc[p] = "network" /\ NetworkStep(initConfig[p], d[p], EmptyMap).g # EmptyMap
       \/ pc[p] = "runtime" /\ RuntimeStep(initConfig[p], d[p], EmptyMap).g # EmptyMap
       \/ pc[p] = "cloud" /\ CloudStep(initConfig[p], d[p], EmptyMap).g # EmptyMap
       \/ pc[p] = "cni" /\ CniStep(initConfig[p], d[p], EmptyMap).g # EmptyMap

\* two invocations store into the same Go map at once: a data race, which
\* the runtime may detect ("fatal error: concurrent map writes") and abort on
ConcurrentMapWrites(p, q) ==
    /\ ~fatal
    /\ p # q
    /\ WritesShared(p)
    /\ WritesShared(q)
    /\ fatal' = TRUE
    /\ UNCHANGED <<DefKubeletSettings, pc, d, token, initConfig, base, ran, ret, calls>>

Step(p) ==
    \/ Endpoint(p)
    \/ Network(p)
    \/ Images(p)
    \/ Runtime(p)
    \/ Cloud(p)
    \/ Cni(p)
    \/ Version(p)
    \/ Etcd(p)
    \/ Credential(p)

\* calls made one after the other by one caller
Next ==
    \/ \E in \in Inputs : Call(1, in)
    \/ Step(1)

Spec == Init /\ [][Next]_vars

\* calls made by concurrent callers, as the plugin host makes them
NextConc ==
    \/ \E p \in Procs : \E in \in InputsConc : Call(p, in)
    \/ \E p \in Procs : Step(p)
    \/ \E p, q \in Procs : ConcurrentMapWrites(p, q)

SpecConc == Init /\ [][NextConc]_vars

----------------------------------------------------------------------------
(* What the claims speak of *)

Done(p) == pc[p] = "done"

\* the call of slot p has returned a record
Returned(p) == Done(p) /\ ret[p].initConfig # NoneV

\* the call of slot p has returned an error of the given kind
FailedWith(p, kind) == Done(p) /\ ret[p].err # NoneV /\ Val(ret[p].err).kind = kind

\* the record slot p returned, its kubelet map read now
Rec(p) == Observed(Val(ret[p].initConfig), DefKubeletSettings)

\* the record slot p returned, as it read when the call returned
RecAtReturn(p) == Val(ret[p].seen)

HasRun(p, step) == \E i \in 1..Len(ran[p]) : ran[p][i] = step

\* the entry of key k in map m, NoneV when m has none
Entry(m, k) == IF k \in DOMAIN m THEN Some(m[k]) ELSE NoneV

\* the leaves of a source tree, the zero value when the block is absent
ApiOf(dd) == IF GetOkBlock(dd.api) THEN Val(dd.api) ELSE [external |-> <<>>, internal |-> <<>>, alt_names |-> <<>>]
DnsOf(dd) ==
    IF GetOkBlock(dd.network) /\ GetOkBlock(Val(dd.network).dns)
    THEN Val(Val(dd.network).dns) ELSE [domain |-> <<>>, upstream |-> <<>>]
EngineOf(dd) == IF GetOkBlock(dd.runtime) THEN Val(dd.runtime).engine ELSE ""
ExtraArgsOf(dd) ==
    IF GetOkBlock(dd.runtime) /\ GetOkBlock(Val(dd.runtime).extra_args)
    THEN Val(Val(dd.runtime).extra_args)
    ELSE [api_server |-> EmptyMap, controller_manager |-> EmptyMap, scheduler |-> EmptyMap, kubelet |-> EmptyMap]
CloudOf(dd) == IF GetOkBlock(dd.cloud) THEN Val(dd.cloud).provider ELSE ""
EndpointsOf(dd) == IF GetOkBlock(dd.etcd) THEN Val(dd.etcd).endpoints ELSE <<>>
ImagesOf(dd) ==
    IF GetOkBlock(dd.images) THEN Val(dd.images) ELSE [kube_repo |-> "", etcd_repo |-> "", etcd_version |-> ""]

\* [A-Z]
IsUpper(c) == c \in {"A", "C", "M"}

\* an uppercase letter, an underscore, or a leading or trailing hyphen
HasForbidden(s) ==
    \/ \E i \in 1..Len(s) : IsUpper(s[i]) \/ s[i] = "_"
    \/ (Len(s) > 0 /\ (s[1] = "-" \/ s[Len(s)] = "-"))

----------------------------------------------------------------------------
(* C1 *)

\* C1: once the DNS step has run on a present network.0.dns.0.domain, a text
\* that is a DNS-1123 subdomain as a whole is stored verbatim in DNSDomain
\* and raises no DNS error, and a text with an uppercase letter, an
\* underscore or a leading or trailing hyphen fails the call with the
\* invalid-DNS-name error and no record.
C1_DnsDomainValidated ==
    \A p \in Procs :
        (Done(p) /\ HasRun(p, "network") /\ GetOkSeq(DnsOf(d[p]).domain)) =>
            LET dom == DnsOf(d[p]).domain
            IN  /\ FullMatch(dom) =>
                    /\ ~FailedWith(p, "dns")
                    /\ Returned(p) => Rec(p).DNSDomain = dom
                /\ HasForbidden(dom) =>
                    /\ FailedWith(p, "dns")
                    /\ ret[p].initConfig = NoneV

----------------------------------------------------------------------------
(* C2 *)

\* C2: a returned record whose runtime.0.engine is in DefCriSocket has
\* CRISocket equal to the table socket and the kubelet extra-arg
\* container-runtime-endpoint equal to "unix://" and that socket, whatever
\* else the tree holds; an engine not in the table fails the call with the
\* unknown-runtime-engine error naming it.
C2_RuntimeEngineResolved ==
    \A p \in Procs :
        LET e == EngineOf(d[p])
        IN  /\ (Returned(p) /\ GetOkStr(e) /\ e \in DOMAIN DefCriSocket) =>
                /\ Rec(p).CRISocket = DefCriSocket[e]
                /\ Entry(Rec(p).KubeletExtraArgs, "container-runtime-endpoint")
                       = Some("unix://" \o DefCriSocket[e])
            /\ (Done(p) /\ HasRun(p, "runtime") /\ GetOkStr(e) /\ e \notin DOMAIN DefCriSocket) =>
                /\ FailedWith(p, "runtime")
                /\ Val(ret[p].err).value = e
                /\ ret[p].initConfig = NoneV

----------------------------------------------------------------------------
(* C3 *)

\* a step applied to the outcome of the steps before it
Then(r, S(_, _, _), dd) == IF r.err # NoneV THEN r ELSE S(r.cfg, dd, r.g)

\* the record one call derives from dd and tok alone, on the settings table
\* as initialised
Alone(dd, tok) ==
    LET r8 == Then(Then(Then(Then(Then(Then(Then(Then(Ok(NewInitConfig, DefKubeletSettingsInit),
                  EndpointStep, dd), NetworkStep, dd), ImagesStep, dd), RuntimeStep, dd),
                  CloudStep, dd), CniStep, dd), VersionStep, dd), EtcdStep, dd)
        made == CHOOSE m \in NewBootstrapToken(tok) : TRUE
        r9 == IF r8.err # NoneV THEN r8 ELSE CredentialStep(r8.cfg, tok, made, r8.g)
    IN  Observed(r9.cfg, r9.g)

\* C3: in any interleaving of calls, the record each call returned is the
\* one its own source tree and token determine, and the package-level
\* default kubelet settings stay as initialised.
C3_InvocationsIndependent ==
    /\ DefKubeletSettings = DefKubeletSettingsInit
    /\ \A p \in Procs : Returned(p) => Rec(p) = Alone(d[p], token[p])

----------------------------------------------------------------------------
(* C4 *)

\* C4: a returned record has at most one of Etcd.Local and Etcd.External
\* set, and with etcd.0.endpoints present it is External, holding the
\* endpoint list verbatim.
C4_DatastoreVariantsExclusive ==
    \A p \in Procs :
        Returned(p) =>
            /\ ~(Rec(p).Etcd.Local # NoneV /\ Rec(p).Etcd.External # NoneV)
            /\ GetOkSeq(EndpointsOf(d[p])) =>
                /\ Rec(p).Etcd.External = Some([Endpoints |-> EndpointsOf(d[p])])
                /\ Rec(p).Etcd.Local = NoneV

----------------------------------------------------------------------------
(* C5 *)

Contains(m, k, v) == k \in DOMAIN m /\ m[k] = v

\* every entry of the map copied from the source tree, but those of the keys
\* in except, is in the record's map
Kept(copied, m, except) == \A k \in (DOMAIN copied) \ except : Contains(m, k, copied[k])

\* the cloud-provider fan-out of the record slot p returned, the entries of
\* the keys in except left aside
FanOut(p, except) ==
    LET x == ExtraArgsOf(d[p])
        r == Rec(p)
    IN  /\ Contains(r.KubeletExtraArgs, "cloud-provider", "external")
        /\ ~r.APIServerExtraArgs.nil
        /\ Contains(r.APIServerExtraArgs.m, "cloud-provider", "external")
        /\ ~r.ControllerManagerExtraArgs.nil
        /\ Contains(r.ControllerManagerExtraArgs.m, "cloud-provider", "external")
        /\ Kept(x.kubelet, r.KubeletExtraArgs, except)
        /\ Kept(x.api_server, r.APIServerExtraArgs.m, except)
        /\ Kept(x.controller_manager, r.ControllerManagerExtraArgs.m, except)
        /\ r.SchedulerExtraArgs = (IF GetOkSeq(x.scheduler) THEN MkMap(x.scheduler) ELSE base[p].SchedulerExtraArgs)
        /\ \A q \in Procs :
               (Returned(q) /\ d[q] = d[p] /\ token[q] = token[p]) =>
                   /\ Rec(q).KubeletExtraArgs = r.KubeletExtraArgs
                   /\ Rec(q).APIServerExtraArgs = r.APIServerExtraArgs
                   /\ Rec(q).ControllerManagerExtraArgs = r.ControllerManagerExtraArgs

FansOut(p) == Returned(p) /\ GetOkStr(CloudOf(d[p]))

----------------------------------------------------------------------------
(* C6 *)

\* C6: a returned record of a call with a non-empty token holds exactly one
\* bootstrap token, built from that token, with no expiry; with the empty
\* token it holds the tokens of the base record; a non-empty token that
\* NewBootstrapToken rejects fails the call with no record.
C6_CredentialDerived ==
    \A p \in Procs :
        /\ (Returned(p) /\ token[p] # "") =>
               Rec(p).BootstrapTokens = <<[Token |-> token[p], Expires |-> NoneV]>>
        /\ (Returned(p) /\ token[p] = "") => Rec(p).BootstrapTokens = base[p].BootstrapTokens
        /\ (Done(p) /\ token[p] # "" /\ token[p] \notin AcceptedTokens) =>
               /\ ret[p].initConfig = NoneV
               /\ ret[p].err # NoneV
               /\ HasRun(p, "token") => FailedWith(p, "token")

\* a call with an accepted non-empty token has returned its record
C6_Witness == \E p \in Procs : Returned(p) /\ token[p] \in AcceptedTokens /\ token[p] # ""

----------------------------------------------------------------------------
(* C7 *)

\* the decimal text of the integer Atoi returned
Canonical(i) == (IF i.neg THEN <<"-">> ELSE <<>>) \o i.mag

\* C7: a returned record of a tree with api.0.internal = host:port, port a
\* decimal integer, has AdvertiseAddress host, BindPort the integer value
\* of port, and CertSANs the host followed by every alt_names entry,
\* duplicates kept; with api.0.internal absent CertSANs is alt_names.
C7_EndpointAndAltNames ==
    \A p \in Procs :
        Returned(p) =>
            LET api == ApiOf(d[p])
                hp == SplitHostPort(api.internal)
            IN  /\ (GetOkSeq(api.internal) /\ IsDecimal(hp.port)) =>
                    /\ Rec(p).AdvertiseAddress = hp.host
                    /\ Itoa(Rec(p).BindPort) = Canonical(Atoi(hp.port))
                    /\ Rec(p).CertSANs = <<hp.host>> \o api.alt_names
                /\ ~GetOkSeq(api.internal) => Rec(p).CertSANs = api.alt_names

----------------------------------------------------------------------------
(* C10 *)

\* C10: with a non-empty port in api.0.internal, either the call fails with
\* the malformed-endpoint error, or the port text is a non-negative integer
\* and a returned record has exactly that integer, never a negative one, as
\* BindPort.
C10_BindPortInRange ==
    \A p \in Procs :
        LET api == ApiOf(d[p])
            hp == SplitHostPort(api.internal)
            i == Atoi(hp.port)
        IN  (Done(p) /\ GetOkSeq(api.internal) /\ hp.err = NoneV /\ hp.port # <<>>) =>
                \/ FailedWith(p, "endpoint")
                \/ /\ i.err = NoneV
                   /\ ~i.neg
                   /\ Returned(p) =>
                       /\ Rec(p).BindPort >= 0
                       /\ Itoa(Rec(p).BindPort) = i.mag

----------------------------------------------------------------------------
(* C8 *)

NetOf(dd) == IF GetOkBlock(dd.network) THEN Val(dd.network) ELSE [pods |-> "", services |-> "", dns |-> NoneV]
CniOf(dd) == IF GetOkBlock(dd.cni) THEN Val(dd.cni) ELSE [bin_dir |-> "", conf_dir |-> ""]

\* the kubelet extra-arg k is in the returned record as in the base record
SameEntry(p, k) == Entry(RecAtReturn(p).KubeletExtraArgs, k) = Entry(base[p].KubeletExtraArgs, k)

\* C8: in a record as it is returned, the field derived from a path the source
\* tree lacks has the value the base record had when the call constructed it,
\* and an empty tree with an empty token returns the base record.
C8_AbsentPathsKeepBase ==
    \A p \in Procs :
        Returned(p) =>
            LET dd == d[p]
                r == RecAtReturn(p)
                b == base[p]
                api == ApiOf(dd)
                x == ExtraArgsOf(dd)
                img == ImagesOf(dd)
                noKubelet == ~GetOkSeq(x.kubelet)
                noCloud == ~GetOkStr(CloudOf(dd))
            IN  /\ ~GetOkSeq(api.external) => r.ControlPlaneEndpoint = b.ControlPlaneEndpoint
                /\ ~GetOkSeq(api.internal) =>
                       r.AdvertiseAddress = b.AdvertiseAddress /\ r.BindPort = b.BindPort
                /\ (~GetOkSeq(api.internal) /\ ~GetOkSeq(api.alt_names)) => r.CertSANs = b.CertSANs
                /\ ~GetOkStr(NetOf(dd).pods) => r.PodSubnet = b.PodSubnet
                /\ ~GetOkStr(NetOf(dd).services) => r.ServiceSubnet = b.ServiceSubnet
                /\ ~GetOkSeq(DnsOf(dd).domain) => r.DNSDomain = b.DNSDomain
                /\ (~GetOkSeq(DnsOf(dd).upstream) /\ noKubelet) => SameEntry(p, "resolv-conf")
                /\ ~GetOkStr(img.kube_repo) => r.ImageRepository = b.ImageRepository
                /\ (~GetOkStr(img.etcd_repo) /\ ~GetOkStr(img.etcd_version)) => r.Etcd.Local = b.Etcd.Local
                /\ ~GetOkStr(EngineOf(dd)) => r.CRISocket = b.CRISocket
                /\ (~GetOkStr(EngineOf(dd)) /\ noKubelet) => SameEntry(p, "container-runtime-endpoint")
                /\ (~GetOkSeq(x.api_server) /\ noCloud) => r.APIServerExtraArgs = b.APIServerExtraArgs
                /\ (~GetOkSeq(x.controller_manager) /\ noCloud) =>
                       r.ControllerManagerExtraArgs = b.ControllerManagerExtraArgs
                /\ ~GetOkSeq(x.scheduler) => r.SchedulerExtraArgs = b.SchedulerExtraArgs
                /\ (noCloud /\ noKubelet) => SameEntry(p, "cloud-provider")
                /\ (~GetOkStr(CniOf(dd).bin_dir) /\ noKubelet) => SameEntry(p, "cni-bin-dir")
                /\ (~GetOkStr(CniOf(dd).conf_dir) /\ noKubelet) => SameEntry(p, "cni-conf-dir")
                /\ noKubelet => SameEntry(p, "network-plugin")
                /\ ~GetOkStr(dd.version) => r.KubernetesVersion = b.KubernetesVersion
                /\ ~GetOkSeq(EndpointsOf(dd)) => r.Etcd.External = b.Etcd.External
                /\ token[p] = "" => r.BootstrapTokens = b.BootstrapTokens
                /\ (dd = EmptyTree /\ token[p] = "") => r = b

----------------------------------------------------------------------------
(* C9 *)

StepOrder == <<"api", "network", "images", "runtime", "cloud", "cni", "version", "etcd", "token">>

EndpointMalformed(dd) ==
    LET hp == SplitHostPort(ApiOf(dd).internal)
    IN  GetOkSeq(ApiOf(dd).internal) /\ (hp.err # NoneV \/ (hp.port # <<>> /\ Atoi(hp.port).err # NoneV))

DnsRefused(dd) == GetOkSeq(DnsOf(dd).domain) /\ ~MatchString(DnsOf(dd).domain)

EngineUnknown(dd) == GetOkStr(EngineOf(dd)) /\ EngineOf(dd) \notin DOMAIN DefCriSocket

TokenRejected(tok) == tok # "" /\ tok \notin AcceptedTokens

\* the first step, in source order, that refuses its input: its error kind
\* and its place in StepOrder
FirstFailure(dd, tok) ==
    IF EndpointMalformed(dd) THEN Some([kind |-> "endpoint", at |-> 1])
    ELSE IF DnsRefused(dd) THEN Some([kind |-> "dns", at |-> 2])
    ELSE IF EngineUnknown(dd) THEN Some([kind |-> "runtime", at |-> 4])
    ELSE IF TokenRejected(tok) THEN Some([kind |-> "token", at |-> 9])
    ELSE NoneV

\* C9: a call returns a record and no error, or an error and no record;
\* nothing is returned before it ends; when no step refuses its input all
\* steps have run and the record is returned; otherwise the error is that of
\* the first refusing step in the order endpoint, DNS domain, runtime
\* engine, credential, and no step after it has run.
C9_AllOrNothing ==
    \A p \in Procs :
        /\ ~Done(p) => ret[p] = NoReturn
        /\ Done(p) =>
            LET f == FirstFailure(d[p], token[p])
            IN  /\ (ret[p].initConfig = NoneV) # (ret[p].err = NoneV)
                /\ IF f = NoneV
                   THEN Returned(p) /\ ran[p] = StepOrder
                   ELSE /\ FailedWith(p, Val(f).kind)
                        /\ ran[p] = SubSeq(StepOrder, 1, Val(f).at)

\* a call whose DNS domain, engine and token would each be refused has
\* failed with the DNS error
C9_Witness ==
    \E p \in Procs :
        /\ FailedWith(p, "dns")
        /\ EngineUnknown(d[p])
        /\ TokenRejected(token[p])
        /\ ret[p].initConfig = NoneV

====
